---- MODULE Spec2Model ----
(***************************************************************************)
(* Model of the vtdtr event broker (sys/cddl/dev/vtdtr/vtdtr.c): the       *)
(* registry of per-process queues (a red-black tree keyed by p_pid under   *)
(* qtree_mtx), the fan-out vtdtr_enqueue, and the character-device entry   *)
(* points open / ioctl(VTDTRIOC_CONF) / read / close.                      *)
(*                                                                         *)
(* Every entry point is split at the places where another thread can       *)
(* observe or disturb it: a section run under qtree_mtx alone is one step, *)
(* every access to a variable that the code reads or writes without the    *)
(* lock that protects it (first, q->max_size, q->event_flags) is a step of *)
(* its own.                                                                *)
(*                                                                         *)
(* size_t values are kept at their width: a value is the set of its bits   *)
(* that are 1, a subset of 0..63.                                          *)
(***************************************************************************)
EXTENDS Integers, Sequences, FiniteSets, TLC

\* ---------------------------------------------------------------- bounds
NThreads == 2
NProcs == 2
NAddrs == 2
MaxEvents == 2

\* ------------------------------------------------------ program constants
BITS == 8
SizeofSizeT == 8
IntBits == 32
EPERM == 1
ENOENT == 2
ESRCH == 3
EBUSY == 16

NULL == 0
Threads == 1..NThreads
Procs == 1..NProcs
Addrs == 1..NAddrs

\* ------------------------------------------------------ size_t arithmetic
Width == SizeofSizeT * BITS
SizeBits == 0..(Width - 1)

\* (size_t)n for a small natural n
Bits(n) == {i \in 0..30 : (n \div (2^i)) % 2 = 1}

SizeTopBit(s) == CHOOSE i \in s : \A j \in s : j <= i
SizeLowBit(s) == CHOOSE i \in s : \A j \in s : i <= j

SizeLt(a, b) ==
    /\ a # b
    /\ SizeTopBit((a \ b) \cup (b \ a)) \in b
SizeGt(a, b) == SizeLt(b, a)
SizeGeq(a, b) == ~SizeLt(a, b)
SizeLeq(a, b) == ~SizeLt(b, a)

\* a + 1 and a - 1 modulo 2^Width
SizeInc(a) ==
    IF a = SizeBits THEN {}
    ELSE LET k == SizeLowBit(SizeBits \ a)
         IN  (a \ (0..(k - 1))) \cup {k}
SizeDec(a) ==
    IF a = {} THEN SizeBits
    ELSE LET k == SizeLowBit(a)
         IN  (a \ {k}) \cup (0..(k - 1))

SizeAnd(a, b) == a \cap b
SizeOr(a, b) == a \cup b

\* (size_t)1 << n for n below the width
Shl1(n) == {n}

\* (size_t)1 << n as the build can evaluate it: for n >= Width the shift is
\* undefined; amd64's shl masks the count to 6 bits, a constant-folding
\* compiler may produce 0.
ShiftOutcomes(n) == IF n < Width THEN {Shl1(n)} ELSE {{}, Shl1(n % Width)}

\* conversion of a size_t to int keeps the low 32 bits
IntOf(s) == s \cap (0..(IntBits - 1))

MAX_BITSHIFT == Shl1(SizeofSizeT * BITS - 1)
VTDTR_BITMASK == SizeOr(SizeDec(MAX_BITSHIFT), MAX_BITSHIFT)
VTDTR_DEFAULT_SIZE == VTDTR_BITMASK
VTDTR_ALL_EVENTS == VTDTR_BITMASK

\* ------------------------------------------------------------- the inputs
EventTypes == {0, 1, 32, 64}
ConfSizes == {Bits(0), Bits(1)}
ConfFlags == {Bits(0), Bits(1)}
\* the struct vtdtr_conf the ioctl argument points to; null marks addr == NULL
NoConf == [null |-> TRUE, max_size |-> {}, event_flags |-> {}]
ConfArgs ==
    {NoConf} \cup [null : {FALSE}, max_size : ConfSizes, event_flags : ConfFlags]
Cmds == {"VTDTRIOC_CONF", "other"}

\* --------------------------------------------------------------- the state
VARIABLES
    first,       \* vtdtr_ioctl's static int first
    qtree_mtx,   \* holder of the tree mutex, NULL when free
    tree,        \* vtdtr_queue_tree: the addresses of the queues in it
    allocated,   \* M_DEVBUF addresses handed out by malloc and not freed
    mem,         \* the struct vtdtr_queue stored at each address
    evfree,      \* how many times free() was called on each event record
                 \* created so far (a record is its index)
    th           \* per thread: position in its call, locals, last result

vars == <<first, qtree_mtx, tree, allocated, mem, evfree, th>>

\* struct vtdtr_queue as malloc(M_ZERO) leaves it, then q->proc, mtx_init
\* and STAILQ_INIT
vtdtr_queue(p) ==
    [proc |-> p, mtx |-> NULL, head |-> <<>>, max_size |-> {},
     num_entries |-> {}, event_flags |-> {}, drops |-> {}]

\* a thread inside a call: td->td_proc, the locals q and tmp, the record e
\* with its e->type (read-only during the call), and *conf. Outside the
\* driver (pc "idle") it keeps what its last call returned.
Running(pc) ==
    [pc |-> pc, proc |-> NULL, q |-> NULL, tmp |-> NULL, e |-> NULL,
     type |-> 0, conf |-> NoConf, ret |-> 0]
Idle(r) == [Running("idle") EXCEPT !.ret = r]

Init ==
    /\ first = 1
    /\ qtree_mtx = NULL
    /\ tree = {}
    /\ allocated = {}
    /\ mem = [a \in Addrs |-> vtdtr_queue(NULL)]
    /\ evfree = <<>>
    /\ th = [t \in Threads |-> Idle(0)]

\* ------------------------------------------------------------ the registry
\* a comparison that never reports equal keys
qtreecmp_NeverEqual(p1, p2) == IF p1 < p2 THEN -1 ELSE 1

qtreecmp(p1, p2) == IF p1 = p2 THEN 0 ELSE IF p1 < p2 THEN -1 ELSE 1

RB_FIND(p) ==
    IF \E a \in tree : qtreecmp(mem[a].proc, p) = 0
    THEN CHOOSE a \in tree : qtreecmp(mem[a].proc, p) = 0
    ELSE NULL

RB_MIN ==
    IF tree = {} THEN NULL
    ELSE CHOOSE a \in tree :
            \A b \in tree : ~(qtreecmp(mem[b].proc, mem[a].proc) < 0)

RB_NEXT(q) ==
    LET after == {a \in tree : qtreecmp(mem[q].proc, mem[a].proc) < 0}
    IN  IF q = NULL \/ after = {} THEN NULL
        ELSE CHOOSE a \in after :
                \A b \in after : ~(qtreecmp(mem[b].proc, mem[a].proc) < 0)

\* RB_INSERT leaves the tree alone when the key is already in it
RB_INSERT(q, p) == IF RB_FIND(p) # NULL THEN tree ELSE tree \cup {q}

Return(t, r) == th' = [th EXCEPT ![t] = Idle(r)]

\* ------------------------------------------------------------- vtdtr_open
\* an open that looks for the caller's queue before it checks the privilege
OpenCall_BusyFirst(t, p, auth) ==
    /\ th[t].pc = "idle"
    /\ IF RB_FIND(p) # NULL
       THEN Return(t, EBUSY)
       ELSE IF ~auth
            THEN Return(t, EPERM)
            ELSE th' = [th EXCEPT ![t] = [Running("open_find") EXCEPT !.proc = p]]
    /\ UNCHANGED <<first, qtree_mtx, tree, allocated, mem, evfree>>

\* error = priv_check(td, PRIV_DTRACE_KERNEL); if (error) return (error)
OpenCall(t, p, auth) ==
    /\ th[t].pc = "idle"
    /\ IF ~auth
       THEN Return(t, EPERM)
       ELSE th' = [th EXCEPT ![t] = [Running("open_find") EXCEPT !.proc = p]]
    /\ UNCHANGED <<first, qtree_mtx, tree, allocated, mem, evfree>>

\* mtx_lock; RB_FIND; mtx_unlock; if (q != NULL) return (EBUSY)
OpenFind(t) ==
    /\ th[t].pc = "open_find"
    /\ qtree_mtx = NULL
    /\ IF RB_FIND(th[t].proc) # NULL
       THEN Return(t, EBUSY)
       ELSE th' = [th EXCEPT ![t].pc = "open_insert"]
    /\ UNCHANGED <<first, qtree_mtx, tree, allocated, mem, evfree>>

\* malloc(M_WAITOK | M_ZERO) at any free address, q->proc, mtx_init,
\* STAILQ_INIT (the new queue is the thread's own until it is in the tree);
\* mtx_lock; RB_INSERT; mtx_unlock; return (0)
OpenInsert(t) ==
    /\ th[t].pc = "open_insert"
    /\ qtree_mtx = NULL
    /\ \E a \in Addrs \ allocated :
          /\ allocated' = allocated \cup {a}
          /\ mem' = [mem EXCEPT ![a] = vtdtr_queue(th[t].proc)]
          /\ tree' = RB_INSERT(a, th[t].proc)
    /\ Return(t, 0)
    /\ UNCHANGED <<first, qtree_mtx, evfree>>

\* ------------------------------------------------------------ vtdtr_ioctl
\* the values vtdtr_ioctl stores: its locals start at the defaults and take
\* the non-zero fields of *conf
ConfMaxSize(conf) ==
    IF ~conf.null /\ conf.max_size # {} THEN conf.max_size ELSE VTDTR_DEFAULT_SIZE
ConfEventFlags(conf) ==
    IF ~conf.null /\ conf.event_flags # {} THEN conf.event_flags ELSE VTDTR_ALL_EVENTS

\* the test of the static flag: only a call that reads first # 0 goes on
IoctlGate == first # 0

\* switch (cmd): any other command returns 0; if (!first) return (EBUSY)
IoctlCall(t, p, cmd) ==
    /\ th[t].pc = "idle"
    /\ IF cmd # "VTDTRIOC_CONF"
       THEN Return(t, 0)
       ELSE IF ~IoctlGate
            THEN Return(t, EBUSY)
            ELSE th' = [th EXCEPT ![t] = [Running("ioctl_first") EXCEPT !.proc = p]]
    /\ UNCHANGED <<first, qtree_mtx, tree, allocated, mem, evfree>>

\* first = 0
IoctlFirst(t) ==
    /\ th[t].pc = "ioctl_first"
    /\ first' = 0
    /\ th' = [th EXCEPT ![t].pc = "ioctl_find"]
    /\ UNCHANGED <<qtree_mtx, tree, allocated, mem, evfree>>

\* mtx_lock; RB_FIND; mtx_unlock; if (q == NULL) return (ENOENT); then the
\* first read of the caller's *conf
IoctlFind(t, conf) ==
    /\ th[t].pc = "ioctl_find"
    /\ qtree_mtx = NULL
    /\ IF RB_FIND(th[t].proc) = NULL
       THEN Return(t, ENOENT)
       ELSE th' = [th EXCEPT ![t].pc = "ioctl_max_size",
                             ![t].q = RB_FIND(th[t].proc), ![t].conf = conf]
    /\ UNCHANGED <<first, qtree_mtx, tree, allocated, mem, evfree>>

\* q->max_size = max_size, without q->mtx. A store through a pointer to
\* freed memory lands in no queue.
IoctlMaxSize(t) ==
    /\ th[t].pc = "ioctl_max_size"
    /\ mem' = IF th[t].q \in allocated
              THEN [mem EXCEPT ![th[t].q].max_size = ConfMaxSize(th[t].conf)]
              ELSE mem
    /\ th' = [th EXCEPT ![t].pc = "ioctl_event_flags"]
    /\ UNCHANGED <<first, qtree_mtx, tree, allocated, evfree>>

\* q->event_flags = event_flags, without q->mtx; return (0)
IoctlEventFlags(t) ==
    /\ th[t].pc = "ioctl_event_flags"
    /\ mem' = IF th[t].q \in allocated
              THEN [mem EXCEPT ![th[t].q].event_flags = ConfEventFlags(th[t].conf)]
              ELSE mem
    /\ Return(t, 0)
    /\ UNCHANGED <<first, qtree_mtx, tree, allocated, evfree>>

\* ---------------------------------------------------------- vtdtr_enqueue
\* the outcomes of vtdtr_subscribed(q, e) != 0: the int the function returns
\* is the low 32 bits of event_flags & ((size_t)1 << e->type)
vtdtr_subscribed(event_flags, type) ==
    IF SizeGt(Bits(type), MAX_BITSHIFT) THEN {FALSE}
    ELSE {IntOf(SizeAnd(event_flags, sh)) # {} : sh \in ShiftOutcomes(type)}

\* the comparison off by one: a queue at its capacity still admits
Full_OffByOne(qs) == SizeGt(qs.num_entries, qs.max_size)

\* q->num_entries >= q->max_size
Full(qs) == SizeGeq(qs.num_entries, qs.max_size)

\* a loop that ends after the first queue
Advance_Stop(t) ==
    [th EXCEPT ![t].pc = "enq_check", ![t].q = NULL, ![t].tmp = NULL]

\* the next round of RB_FOREACH_SAFE
Advance(t) ==
    [th EXCEPT ![t].pc = "enq_check", ![t].q = th[t].tmp,
               ![t].tmp = RB_NEXT(th[t].tmp)]

\* an insertion at the front of the list
STAILQ_INSERT_HEAD(head, ent) == <<ent>> \o head

\* STAILQ_INSERT_TAIL(&q->head, ent, next)
STAILQ_INSERT_TAIL(head, ent) == Append(head, ent)

\* the producer's record e; mtx_lock(&qtree_mtx); q = RB_MIN
EnqueueCall(t, type) ==
    /\ th[t].pc = "idle"
    /\ Len(evfree) < MaxEvents
    /\ qtree_mtx = NULL
    /\ qtree_mtx' = t
    /\ evfree' = Append(evfree, 0)
    /\ th' = [th EXCEPT ![t] = [Running("enq_check") EXCEPT !.q = RB_MIN,
                                               !.tmp = RB_NEXT(RB_MIN),
                                               !.e = Len(evfree) + 1,
                                               !.type = type]]
    /\ UNCHANGED <<first, tree, allocated, mem>>

\* mtx_lock(&q->mtx); a full queue counts a drop and is left
EnqueueCheck(t) ==
    /\ th[t].pc = "enq_check"
    /\ th[t].q # NULL
    /\ mem[th[t].q].mtx = NULL
    /\ IF Full(mem[th[t].q])
       THEN /\ mem' = [mem EXCEPT ![th[t].q].drops = SizeInc(@)]
            /\ th' = Advance(t)
       ELSE /\ mem' = [mem EXCEPT ![th[t].q].mtx = t]
            /\ th' = [th EXCEPT ![t].pc = "enq_subscribed"]
    /\ UNCHANGED <<first, qtree_mtx, tree, allocated, evfree>>

\* if (vtdtr_subscribed(q, e)) insert at the tail; mtx_unlock(&q->mtx)
EnqueueSubscribed(t) ==
    /\ th[t].pc = "enq_subscribed"
    /\ \E s \in vtdtr_subscribed(mem[th[t].q].event_flags, th[t].type) :
          mem' = [mem EXCEPT
                    ![th[t].q].head = IF s THEN STAILQ_INSERT_TAIL(@, th[t].e) ELSE @,
                    ![th[t].q].num_entries = IF s THEN SizeInc(@) ELSE @,
                    ![th[t].q].mtx = NULL]
    /\ th' = Advance(t)
    /\ UNCHANGED <<first, qtree_mtx, tree, allocated, evfree>>

\* a scan that returns with qtree_mtx still held
EnqueueDone_KeepsLock(t) ==
    /\ th[t].pc = "enq_check"
    /\ th[t].q = NULL
    /\ Return(t, 0)
    /\ UNCHANGED <<first, qtree_mtx, tree, allocated, mem, evfree>>

\* the scan is over: mtx_unlock(&qtree_mtx)
EnqueueDone(t) ==
    /\ th[t].pc = "enq_check"
    /\ th[t].q = NULL
    /\ qtree_mtx' = NULL
    /\ Return(t, 0)
    /\ UNCHANGED <<first, tree, allocated, mem, evfree>>

\* ------------------------------------------------------------- vtdtr_read
ReadCall(t, p) ==
    /\ th[t].pc = "idle"
    /\ th' = [th EXCEPT ![t] = [Running("read") EXCEPT !.proc = p]]
    /\ UNCHANGED <<first, qtree_mtx, tree, allocated, mem, evfree>>

\* return (0): nothing is taken from the queue, nothing is moved to uio
ReadReturn(t) ==
    /\ th[t].pc = "read"
    /\ Return(t, 0)
    /\ UNCHANGED <<first, qtree_mtx, tree, allocated, mem, evfree>>

\* vtdtr_close taking the queue out of the tree without waiting for
\* qtree_mtx
CloseCall_NoTreeLock(t, p) ==
    /\ th[t].pc = "idle"
    /\ IF RB_FIND(p) = NULL
       THEN /\ Return(t, ESRCH)
            /\ tree' = tree
       ELSE /\ tree' = tree \ {RB_FIND(p)}
            /\ th' = [th EXCEPT ![t] = [Running("close_flush") EXCEPT !.proc = p,
                                                              !.q = RB_FIND(p)]]
    /\ UNCHANGED <<first, qtree_mtx, allocated, mem, evfree>>

\* ------------------------------------------------------------ vtdtr_close
\* mtx_lock; RB_FIND; RB_REMOVE; mtx_unlock
CloseCall(t, p) ==
    /\ th[t].pc = "idle"
    /\ qtree_mtx = NULL
    /\ IF RB_FIND(p) = NULL
       THEN /\ Return(t, ESRCH)
            /\ tree' = tree
       ELSE /\ tree' = tree \ {RB_FIND(p)}
            /\ th' = [th EXCEPT ![t] = [Running("close_flush") EXCEPT !.proc = p,
                                                              !.q = RB_FIND(p)]]
    /\ UNCHANGED <<first, qtree_mtx, allocated, mem, evfree>>

\* free(ent->event) for every entry of the queue
vtdtr_flush(head) ==
    [e \in DOMAIN evfree |->
        evfree[e] + Cardinality({i \in DOMAIN head : head[i] = e})]

\* mtx_lock(&q->mtx); vtdtr_flush(q); mtx_unlock(&q->mtx); free(q, M_DEVBUF);
\* return (0). The queue is out of the tree: no scan holds or takes q->mtx.
CloseFlush(t) ==
    /\ th[t].pc = "close_flush"
    /\ mem[th[t].q].mtx = NULL
    /\ evfree' = vtdtr_flush(mem[th[t].q].head)
    /\ allocated' = allocated \ {th[t].q}
    /\ mem' = [mem EXCEPT ![th[t].q] = vtdtr_queue(NULL)]
    /\ Return(t, 0)
    /\ UNCHANGED <<first, qtree_mtx, tree>>

\* ------------------------------------------------------ the specifications
\* a thread outside the driver enters one of the entry points
Call(t) ==
    \/ \E p \in Procs, auth \in BOOLEAN : OpenCall(t, p, auth)
    \/ \E p \in Procs, cmd \in Cmds : IoctlCall(t, p, cmd)
    \/ \E type \in EventTypes : EnqueueCall(t, type)
    \/ \E p \in Procs : ReadCall(t, p)
    \/ \E p \in Procs : CloseCall(t, p)

\* a thread inside a call takes the call's next step
Continue(t) ==
    \/ OpenFind(t)
    \/ OpenInsert(t)
    \/ IoctlFirst(t)
    \/ \E conf \in ConfArgs : IoctlFind(t, conf)
    \/ IoctlMaxSize(t)
    \/ IoctlEventFlags(t)
    \/ EnqueueCheck(t)
    \/ EnqueueSubscribed(t)
    \/ EnqueueDone(t)
    \/ ReadReturn(t)
    \/ CloseFlush(t)

Step(t) == Call(t) \/ Continue(t)

\* any number of threads inside the driver at once
Next == \E t \in Threads : Step(t)
Spec == Init /\ [][Next]_vars

\* the entry points called one at a time
OthersIdle(t) == \A u \in Threads \ {t} : th[u].pc = "idle"
SeqNext == \E t \in Threads : OthersIdle(t) /\ Step(t)
SeqSpec == Init /\ [][SeqNext]_vars

\* ---------------------------------------------------------------- claims
Range(s) == {s[i] : i \in DOMAIN s}

\* thread t takes the step
Moved(t) == th'[t] # th[t]

\* the type's bit is set in the mask and the type is below the mask's width
InMask(event_flags, type) == type < Width /\ type \in event_flags

\* C1: in every reachable state every registered queue has
\* 0 <= num_entries <= max_size (a size_t is never below 0).
C1_LengthWithinCapacity ==
    \A a \in tree : SizeLeq(mem[a].num_entries, mem[a].max_size)

\* C2: when a scan offers an event that is in the mask of a registered queue
\* whose num_entries equals its max_size, drops goes up by exactly one and
\* num_entries and the stored entries stay as they are.
C2_FullQueueDropsArrival ==
    [][\A t \in Threads :
          (/\ th[t].pc = "enq_check"
           /\ Moved(t)
           /\ th[t].q # NULL
           /\ mem[th[t].q].num_entries = mem[th[t].q].max_size
           /\ InMask(mem[th[t].q].event_flags, th[t].type))
          => /\ mem'[th[t].q].drops = SizeInc(mem[th[t].q].drops)
             /\ mem'[th[t].q].num_entries = mem[th[t].q].num_entries
             /\ mem'[th[t].q].head = mem[th[t].q].head
             /\ th'[t].pc = "enq_check"]_vars

\* a scan of an event of type 0 has passed a registered queue of capacity 1
\* that subscribes to type 0 and already held one other entry: the event is
\* not in it and its drop is counted
C2_Witness ==
    \E t \in Threads, a \in tree :
        /\ th[t].pc = "enq_check"
        /\ th[t].q = NULL
        /\ th[t].type = 0
        /\ \A u \in Threads \ {t} : th[u].pc = "idle"
        /\ mem[a].max_size = Bits(1)
        /\ mem[a].num_entries = Bits(1)
        /\ mem[a].event_flags = Bits(1)
        /\ Len(mem[a].head) = 1
        /\ th[t].e \notin Range(mem[a].head)
        /\ mem[a].drops = Bits(1)

\* C3: a scan never inserts an event whose type bit is not set in the
\* queue's mask and never counts a drop for it, also when the queue is at
\* capacity.  Stated for types below the width of the mask (C4 is about the
\* others) and for queues of non-zero capacity (a queue of capacity 0 counts
\* a drop for every event, see C6).
C3_UnsubscribedNeverCounted ==
    [][\A t \in Threads :
          (/\ th[t].pc \in {"enq_check", "enq_subscribed"}
           /\ Moved(t)
           /\ th[t].q # NULL
           /\ mem[th[t].q].max_size # {}
           /\ th[t].type < Width
           /\ th[t].type \notin mem[th[t].q].event_flags)
          => /\ mem'[th[t].q].drops = mem[th[t].q].drops
             /\ mem'[th[t].q].head = mem[th[t].q].head]_vars

\* C4: an event whose type is not below the width of the mask is never
\* inserted (the subscription test treats it as not subscribed).
C4_OutOfRangeNeverInserted ==
    [][\A t \in Threads :
          (/\ th[t].pc = "enq_subscribed"
           /\ Moved(t)
           /\ th[t].type >= Width)
          => mem'[th[t].q].head = mem[th[t].q].head]_vars

\* C5: a read by the owner of a queue, with room for every entry, takes all
\* entries from the queue: afterwards it is empty and num_entries is 0.
C5_ReadDrainsQueue ==
    [][\A t \in Threads :
          (/\ th[t].pc = "read"
           /\ Moved(t)
           /\ RB_FIND(th[t].proc) # NULL)
          => /\ mem'[RB_FIND(th[t].proc)].head = <<>>
             /\ mem'[RB_FIND(th[t].proc)].num_entries = {}]_vars

\* C6: the queue a successful open puts in the tree has the default
\* capacity, the all-events mask, no entries and no drops.
C6_OpenSetsDefaults ==
    [][\A t \in Threads :
          (th[t].pc = "open_insert" /\ Moved(t))
          => \A a \in tree' \ tree :
                /\ mem'[a].max_size = VTDTR_DEFAULT_SIZE
                /\ mem'[a].event_flags = VTDTR_ALL_EVENTS
                /\ mem'[a].num_entries = {}
                /\ mem'[a].drops = {}]_vars

\* C7: with the entry points called one at a time, an authorized open by an
\* identity that has a queue in the tree returns EBUSY and changes neither
\* the tree nor any queue; an authorized open by an identity that has none
\* (again, after its close) puts a new queue of that identity in the tree
\* and returns 0; the tree never holds two queues of one identity.
C7_OneQueuePerIdentity ==
    /\ [](\A a, b \in tree : mem[a].proc = mem[b].proc => a = b)
    /\ [][\A t \in Threads :
            /\ (th[t].pc = "open_find" /\ Moved(t) /\ RB_FIND(th[t].proc) # NULL)
               => /\ th'[t] = Idle(EBUSY)
                  /\ UNCHANGED <<tree, mem, allocated>>
            /\ (th[t].pc = "open_find" /\ Moved(t) /\ RB_FIND(th[t].proc) = NULL)
               => th'[t].pc = "open_insert"
            /\ (th[t].pc = "open_insert" /\ Moved(t))
               => /\ th'[t] = Idle(0)
                  /\ \E a \in Addrs \ allocated :
                        /\ tree' = tree \cup {a}
                        /\ a \notin tree
                        /\ mem'[a] = vtdtr_queue(th[t].proc)]_vars

\* every identity has a queue in the tree although some queue was closed
\* with an entry in it (its record is freed): the identity of that queue
\* was opened again after its close
C7_Witness ==
    /\ \A t \in Threads : th[t].pc = "idle"
    /\ \A p \in Procs : RB_FIND(p) # NULL
    /\ \E e \in DOMAIN evfree : evfree[e] = 1
    /\ \E t \in Threads : th[t].ret = EBUSY

\* C8: no event record is freed twice, and no entry of a queue that is still
\* allocated points to a record that was freed.
C8_RecordsFreedOnce ==
    /\ \A e \in DOMAIN evfree : evfree[e] <= 1
    /\ \A a \in allocated : \A e \in Range(mem[a].head) : evfree[e] = 0

\* C9: a configure whose capacity field is zero, or whose request is NULL,
\* leaves max_size as it was, and one whose mask field is zero (or NULL)
\* leaves event_flags as it was.
C9_ZeroFieldsKeepCurrent ==
    [][\A t \in Threads :
          /\ (/\ th[t].pc = "ioctl_max_size"
               /\ Moved(t)
               /\ (th[t].conf.null \/ th[t].conf.max_size = {}))
             => mem'[th[t].q].max_size = mem[th[t].q].max_size
          /\ (/\ th[t].pc = "ioctl_event_flags"
               /\ Moved(t)
               /\ (th[t].conf.null \/ th[t].conf.event_flags = {}))
             => mem'[th[t].q].event_flags = mem[th[t].q].event_flags]_vars

\* C10: the gate of configure is per queue: while a registered queue is
\* still as open left it (no configure has stored into it) and no call is
\* running, a configure by its owner is not turned away, that is, the gate
\* it tests is open.
C10_ConfigureGatePerQueue ==
    (/\ \A t \in Threads : th[t].pc = "idle"
     /\ \E a \in tree : mem[a].max_size = {} /\ mem[a].event_flags = {})
    => IoctlGate

\* a thread is inside the loop of vtdtr_enqueue
Scanning(t) == th[t].pc \in {"enq_check", "enq_subscribed"}

\* C11: a close and a scan are never interleaved. While a scan is in flight
\* it holds the tree lock, the queue it is at and the queue it goes to next
\* are in the tree and not freed, the queue it goes to next is the
\* successor of the one it is at, no thread that has taken a queue out of
\* the tree still holds the queue the scan is at, and no step changes the
\* tree before the scan is over: the closed queue is either offered the
\* event before its removal or never seen by the scan.
C11_CloseNeverInsideScan ==
    /\ [](\A t \in Threads : Scanning(t) =>
            /\ qtree_mtx = t
            /\ th[t].q # NULL => th[t].q \in tree \cap allocated
            /\ th[t].tmp # NULL => th[t].tmp \in tree \cap allocated
            /\ th[t].q # NULL => th[t].tmp = RB_NEXT(th[t].q)
            /\ \A u \in Threads \ {t} :
                  th[u].pc = "close_flush" => th[u].q \notin {th[t].q, th[t].tmp})
    /\ [][(\E t \in Threads : Scanning(t)) => tree' = tree]_vars

\* a scan is at a registered queue while another thread is between the
\* removal and the flush of the queue it closes
C11_Witness ==
    \E t, u \in Threads :
        /\ th[t].pc = "enq_subscribed"
        /\ th[u].pc = "close_flush"
        /\ th[u].q \notin tree
        /\ th[u].q \in allocated

\* C12: one call of vtdtr_enqueue offers the event once to every queue of
\* the tree, in key order from the first to the last, and returns only
\* after the last; what happens at a queue (drop counted, event appended or
\* nothing) is decided by that queue's own num_entries, max_size and
\* event_flags, and no other queue is touched at that step.
C12_SynchronousFanOut ==
    [][\A t \in Threads :
          /\ (th[t].pc = "idle" /\ Scanning(t)')
             => th'[t].q = RB_MIN /\ mem' = mem
          /\ (th[t].pc = "enq_check" /\ Moved(t) /\ th[t].q # NULL)
             => /\ \A a \in Addrs \ {th[t].q} : mem'[a] = mem[a]
                /\ mem'[th[t].q].head = mem[th[t].q].head
                /\ mem'[th[t].q].num_entries = mem[th[t].q].num_entries
                /\ IF SizeGeq(mem[th[t].q].num_entries, mem[th[t].q].max_size)
                   THEN /\ mem'[th[t].q].drops = SizeInc(mem[th[t].q].drops)
                        /\ Scanning(t)'
                        /\ th'[t].q = RB_NEXT(th[t].q)
                   ELSE /\ mem'[th[t].q].drops = mem[th[t].q].drops
                        /\ th'[t].pc = "enq_subscribed"
                        /\ th'[t].q = th[t].q
          /\ (th[t].pc = "enq_subscribed" /\ Moved(t))
             => /\ \A a \in Addrs \ {th[t].q} : mem'[a] = mem[a]
                /\ mem'[th[t].q].drops = mem[th[t].q].drops
                /\ \/ /\ mem'[th[t].q].head = mem[th[t].q].head
                      /\ mem'[th[t].q].num_entries = mem[th[t].q].num_entries
                   \/ /\ mem'[th[t].q].head = Append(mem[th[t].q].head, th[t].e)
                      /\ mem'[th[t].q].num_entries = SizeInc(mem[th[t].q].num_entries)
                /\ th[t].type < IntBits
                   => (mem'[th[t].q].head # mem[th[t].q].head
                       <=> th[t].type \in mem[th[t].q].event_flags)
                /\ Scanning(t)'
                /\ th'[t].q = RB_NEXT(th[t].q)
          /\ (Scanning(t) /\ th'[t].pc = "idle") => th[t].q = NULL]_vars

\* a scan has passed two registered queues: one holds its event, the other
\* does not and has counted drops
C12_Witness ==
    \E t \in Threads, a, b \in tree :
        /\ th[t].pc = "enq_check"
        /\ th[t].q = NULL
        /\ th[t].e \in Range(mem[a].head)
        /\ th[t].e \notin Range(mem[b].head)
        /\ mem[b].drops # {}
        /\ mem[a].drops = {}

\* C13: a close takes the caller's queue, and only it, out of the tree,
\* frees its entries without handing them to anyone and frees the queue; no
\* other queue changes in any field, and the records that the entries of
\* the other queues point to are not freed.
C13_CloseLeavesOthersAlone ==
    [][\A t \in Threads :
          /\ (th[t].pc = "idle" /\ th'[t].pc = "close_flush")
             => /\ th'[t].q \in tree
                /\ mem[th'[t].q].proc = th'[t].proc
                /\ tree' = tree \ {th'[t].q}
                /\ mem' = mem
                /\ evfree' = evfree
          /\ (th[t].pc = "close_flush" /\ Moved(t))
             => /\ th'[t] = Idle(0)
                /\ tree' = tree
                /\ th[t].q \notin allocated'
                /\ \A a \in Addrs \ {th[t].q} : mem'[a] = mem[a]
                /\ \A a \in allocated \ {th[t].q} :
                      \A e \in Range(mem[a].head) : evfree'[e] = evfree[e]]_vars

\* C14: the list of a queue is the sequence of the records admitted into it,
\* in the order of the calls that admitted them: records are numbered in
\* the order their scans take the tree lock, so the list is strictly
\* ascending (no reordering, no duplicate), num_entries is its length, and
\* as long as the queue is not freed a step either leaves the list alone or
\* puts the record of a running scan behind its last entry (no loss).
C14_ListIsAdmissionOrder ==
    /\ [](\A a \in allocated :
            /\ \A i, j \in DOMAIN mem[a].head :
                  i < j => mem[a].head[i] < mem[a].head[j]
            /\ mem[a].num_entries = Bits(Len(mem[a].head)))
    /\ [][\A a \in allocated \cap allocated' :
            \/ mem'[a].head = mem[a].head
            \/ \E t \in Threads :
                  /\ th[t].pc = "enq_subscribed"
                  /\ th[t].q = a
                  /\ mem'[a].head = Append(mem[a].head, th[t].e)]_vars

\* a queue holds two records
C14_Witness ==
    \E a \in tree : Len(mem[a].head) = 2 /\ mem[a].head[1] # mem[a].head[2]

\* C15: an open by a caller that priv_check refuses returns the error of
\* priv_check at once, whether or not the caller's process already has a
\* queue (the privilege is checked before the tree is searched), and
\* changes neither the tree nor any queue.
C15_UnprivilegedOpenRefused ==
    [][\A t \in Threads :
          /\ \A p \in Procs :
                OpenCall(t, p, FALSE)
                => /\ th'[t].pc = "idle"
                   /\ th'[t].ret = EPERM
                   /\ UNCHANGED <<first, qtree_mtx, tree, allocated, mem, evfree>>
          /\ (th[t].pc = "idle" /\ Moved(t) /\ th'[t] = Idle(EPERM))
             => UNCHANGED <<first, qtree_mtx, tree, allocated, mem, evfree>>]_vars

\* the last call of every thread was refused with EPERM and every process
\* has a queue: the refused open that returned last was made when its
\* caller's process, whichever it was, already had one
C15_Witness ==
    /\ \A t \in Threads : th[t] = Idle(EPERM)
    /\ \A p \in Procs : RB_FIND(p) # NULL

\* C16: of the opens that one process runs at the same time at most one
\* succeeds, so every queue that an open has allocated and that no close
\* has taken out is the queue of its process in the tree.
C16_EveryOpenedQueueRegistered ==
    \A a \in allocated :
        \/ a \in tree
        \/ \E t \in Threads : th[t].pc = "close_flush" /\ th[t].q = a

\* C17: the capacity and the mask of a live queue are written only by a
\* thread that holds the queue's mutex, and a scan that holds it never
\* stands between the two stores of a configure to that queue (it would
\* see the new capacity with the old mask).
C17_ConfigureUnderQueueLock ==
    /\ [](\A t, u \in Threads :
            ~(/\ th[t].pc = "enq_subscribed"
              /\ th[u].pc = "ioctl_event_flags"
              /\ th[u].q = th[t].q))
    /\ [][\A a \in allocated \cap allocated' :
            (\/ mem'[a].max_size # mem[a].max_size
             \/ mem'[a].event_flags # mem[a].event_flags)
            => \E t \in Threads : mem[a].mtx = t /\ Moved(t)]_vars

\* C18: a configure never stores into a queue that a close has taken out of
\* the tree and freed: at each of its two stores the queue it found is
\* still allocated and still the queue of the caller's process.
C18_ConfigureNeverAfterFree ==
    [][\A t \in Threads :
          (th[t].pc \in {"ioctl_max_size", "ioctl_event_flags"} /\ Moved(t))
          => /\ th[t].q \in allocated
             /\ mem[th[t].q].proc = th[t].proc]_vars

\* a thread inside a call stands at mtx_lock(&qtree_mtx) and the mutex is
\* taken
WaitsTree(t) ==
    th[t].pc \in {"open_find", "open_insert", "ioctl_find"} /\ qtree_mtx # NULL

\* a thread stands at mtx_lock(&q->mtx) and the mutex is taken
WaitsQueue(t) ==
    /\ \/ th[t].pc = "enq_check" /\ th[t].q # NULL
       \/ th[t].pc = "close_flush"
    /\ mem[th[t].q].mtx # NULL

\* malloc(M_WAITOK) sleeps until memory is free: it waits for no lock
WaitsMemory(t) == th[t].pc = "open_insert" /\ allocated = Addrs

\* the queues a scan at q has still to pass, q included
Remaining(q) ==
    Cardinality({a \in tree : qtreecmp(mem[q].proc, mem[a].proc) <= 0})

\* the steps a call has left at each of its positions outside the loop of
\* vtdtr_enqueue
PcSteps ==
    [idle |-> 0, open_find |-> 2, open_insert |-> 1, ioctl_first |-> 4,
     ioctl_find |-> 3, ioctl_max_size |-> 2, ioctl_event_flags |-> 1,
     read |-> 1, close_flush |-> 1]

\* an upper bound of the steps a thread has left in its call
StepsLeft(t) ==
    IF th[t].pc = "enq_check"
    THEN IF th[t].q = NULL THEN 1 ELSE 2 * Remaining(th[t].q) + 1
    ELSE IF th[t].pc = "enq_subscribed"
         THEN 2 * Remaining(th[t].q)
         ELSE PcSteps[th[t].pc]

C20_FailedConfigureChangesNothing ==
    [][\A t \in Threads :
          (th[t].pc = "ioctl_find" /\ Moved(t) /\ th'[t] = Idle(ENOENT))
          => IoctlGate' /\ mem' = mem]_vars

====
